---------------------------- MODULE Spec2Model ----------------------------
(***************************************************************************)
(* Model of the hs_spi library (src/hs_spi.c, src/hs_spi.h): one SPI       *)
(* object (struct _hs_spi) shared by several threads that call the public  *)
(* functions of the library.  Every thread is a small program counter      *)
(* machine that walks through the body of the function it called; the      *)
(* operating system (open/close/ioctl/malloc) and the user's chip-select   *)
(* callback are the environment and their results are nondeterministic.    *)
(***************************************************************************)
EXTENDS Integers, Sequences, FiniteSets, TLC

(* ------------------------------ bounds --------------------------------- *)

\* number of threads that share the SPI object in the concurrent specification
NumThreads == 2
\* largest data length a call passes in the concurrent specification
MaxLen == 2
\* largest data length a call passes in the single-thread specification
MaxSeqLen == 10
\* largest full-duplex write/read length in the single-thread specification
MaxDuplexLen == 3
\* largest explicit value handed to hs_spi_set_max_transfer_len
MaxChunk == 4

(* -------------------------- program constants -------------------------- *)

\* the internal default of max_transfer_len (hs_spi.c:162, hs_spi.c:211)
DefaultMaxTransferLen == 4096
\* the value of an invalid descriptor (hs_spi.c:65)
InvalidFd == -1

Threads == 1..NumThreads
NoThread == 0

\* the callbacks a caller may install; NULL is "no callback"
NULL == "NULL"
Callbacks == {"cs_cb"}

\* the register address used by the *_sub calls
RegAddrs == {32}
\* the device answers a segment with bytes seed+1, seed+2, ... (mod 256)
RxSeeds == {16, 128}

TransferOps == {"hs_spi_write_data", "hs_spi_read_data", "hs_spi_write_read_data",
                "hs_spi_write_data_sub", "hs_spi_read_data_sub",
                "hs_spi_write_read_data_sub"}
SetterOps == {"hs_spi_set_cs_control_cb", "hs_spi_set_max_transfer_len"}

IsDuplex(o) == o \in {"hs_spi_write_read_data", "hs_spi_write_read_data_sub"}
IsSub(o) == o \in {"hs_spi_write_data_sub", "hs_spi_read_data_sub",
                   "hs_spi_write_read_data_sub"}
HasWrite(o) == o \in {"hs_spi_write_data", "hs_spi_write_data_sub"} \/ IsDuplex(o)
HasRead(o) == o \in {"hs_spi_read_data", "hs_spi_read_data_sub"} \/ IsDuplex(o)

VARIABLES
    alive,            \* the object returned by hs_spi_create has not been freed
    fd,               \* hs_spi->fd
    cs_control_cb,    \* hs_spi->cs_control_cb
    max_transfer_len, \* hs_spi->max_transfer_len
    mutex,            \* hs_spi->mutex: NoThread, or the thread that holds it
    open_fds,         \* descriptors the process has open (operating system)
    requested_len,    \* last value handed to hs_spi_set_max_transfer_len, -1: none yet
    heap,             \* live scratch buffers: <<thread, "tx" | "rx">>
    pc,               \* per thread: position in the function it called
    op,               \* per thread: the function it called
    arg,              \* per thread: the arguments of the call
    remain_data_len,  \* per thread: local of the segmentation loop
    tx_buf,           \* per thread: content of the transmit scratch buffer
    rx_buf,           \* per thread: content of the receive scratch buffer
    read_data,        \* per thread: the caller's output buffer
    io_ret,           \* per thread: result of the last native call (ret)
    log,              \* per thread: callback invocations and native calls of the call
    ret,              \* per thread: value the call returned
    keep              \* the callers keep the outcome of a finished call for inspection

vars == <<alive, fd, cs_control_cb, max_transfer_len, mutex, open_fds, requested_len, heap, pc, op,
          arg, remain_data_len, tx_buf, rx_buf, read_data, io_ret, log, ret, keep>>

handle_vars == <<alive, fd, cs_control_cb, max_transfer_len, open_fds, requested_len>>
thread_vars == <<pc, op, arg, remain_data_len, tx_buf, rx_buf, read_data, io_ret, log, ret>>

(* ------------------------------ helpers -------------------------------- *)

Max(a, b) == IF a > b THEN a ELSE b
Min(a, b) == IF a < b THEN a ELSE b

\* memset(buf, 0, n)
Zeros(n) == [i \in 1..n |-> 0]
\* a caller's output buffer of n bytes nobody wrote yet (-1: no byte value)
Fresh(n) == [i \in 1..n |-> -1]
\* the bytes buf[off .. off+len-1] (off counts from 0 as in C)
Slice(buf, off, len) == [i \in 1..len |-> buf[off + i]]
\* buf with data stored at buf[off ..]
Store(buf, off, data) ==
    [i \in 1..Len(buf) |-> IF i > off /\ i <= off + Len(data) THEN data[i - off] ELSE buf[i]]
\* what the device clocks back for a segment of n bytes
DeviceReply(seed, n) == [i \in 1..n |-> (seed + i) % 256]
\* the caller's write data: byte i is i (never zero for the lengths modelled)
WriteData(n) == [i \in 1..n |-> i % 256]

\* the arguments of a call
Args(hs_null, wnull, wlen, rnull, rlen, reg, val, cb) ==
    [hs_null |-> hs_null, wnull |-> wnull, wlen |-> wlen, rnull |-> rnull,
     rlen |-> rlen, reg |-> reg, val |-> val, cb |-> cb]
NoArgs == Args(FALSE, FALSE, 0, FALSE, 0, 0, 0, NULL)

\* one entry of a thread's log
CsEvent(cb, enable, res) ==
    [kind |-> "cs", cb |-> cb, enable |-> enable, res |-> res, n |-> 0, addr |-> <<>>,
     off |-> 0, len |-> 0, limit |-> 0, tx |-> <<>>, rx |-> <<>>]
IoEvent(n, addr, off, len, limit, tx, rx, res) ==
    [kind |-> "ioctl", cb |-> NULL, enable |-> FALSE, res |-> res, n |-> n, addr |-> addr,
     off |-> off, len |-> len, limit |-> limit, tx |-> tx, rx |-> rx]


(* --------------------------- return codes ------------------------------ *)

\* one code for every violated precondition
CheckArgs_OneCode(o, a) ==
    IF a.hs_null THEN -1
    ELSE IF HasWrite(o) /\ (a.wnull \/ a.wlen = 0) THEN -1
    ELSE IF HasRead(o) /\ (a.rnull \/ a.rlen = 0) THEN -1
    ELSE IF o = "hs_spi_init" /\ a.wnull THEN -2
    ELSE 0

\* the code of the first violated precondition of a call, 0 when all hold
CheckArgs(o, a) ==
    IF a.hs_null THEN -1
    ELSE IF o \in {"hs_spi_write_data", "hs_spi_write_data_sub"} THEN
        IF a.wnull THEN -2 ELSE IF a.wlen = 0 THEN -3 ELSE 0
    ELSE IF o \in {"hs_spi_read_data", "hs_spi_read_data_sub"} THEN
        IF a.rnull THEN -2 ELSE IF a.rlen = 0 THEN -3 ELSE 0
    ELSE IF IsDuplex(o) THEN
        IF a.wnull THEN -2 ELSE IF a.wlen = 0 THEN -3
        ELSE IF a.rnull THEN -4 ELSE IF a.rlen = 0 THEN -5 ELSE 0
    ELSE IF o = "hs_spi_init" THEN
        IF a.wnull THEN -2 ELSE 0
    ELSE 0

ErrNotInit(o) == IF IsDuplex(o) THEN -6 ELSE -4
ErrTxAlloc(o) == -7
ErrRxAlloc(o) == -8
ErrCs(o) == IF IsDuplex(o) THEN -9 ELSE -5
ErrIo(o) == IF IsDuplex(o) THEN -10 ELSE -6
ErrRemain(o) == IF IsDuplex(o) THEN -11 ELSE -7

\* the length the segmentation loop starts from
TotalLen(o, a) ==
    IF IsDuplex(o) THEN (IF a.wlen > a.rlen THEN a.wlen ELSE a.rlen)
    ELSE IF HasWrite(o) THEN a.wlen
    ELSE a.rlen

(* ------------------------------ the mutex ------------------------------ *)

\* a lock that does not wait for the holder
pthread_mutex_lock_NoWait(t) == mutex' = t

pthread_mutex_lock(t) == mutex = NoThread /\ mutex' = t

\* an unlock that leaves the mutex with its holder
pthread_mutex_unlock_Kept(t) == UNCHANGED mutex

pthread_mutex_unlock(t) == mutex' = NoThread

(* ---------------------- hs_spi_cs_control (static) --------------------- *)

\* hs_spi_cs_control that drops what the callback returns
CsControlResult_Ignored(r) == 0

\* the value hs_spi_cs_control returns when the callback (if any) returns r
CsControlResult(r) == IF cs_control_cb /= NULL THEN r ELSE 0

\* the log after hs_spi_cs_control(hs_spi, enable): the callback is invoked
\* only when one is installed
CsControlLog(t, enable, r) ==
    IF cs_control_cb /= NULL
    THEN Append(log[t], CsEvent(cs_control_cb, enable, r))
    ELSE log[t]

\* free(tx_buf); free(rx_buf)
FreeScratch(t) == heap \ {<<t, "tx">>, <<t, "rx">>}

Idle(t) == pc[t] \in {"idle", "done"}

\* hs_spi.h:61, hs_spi.h:78: the caller of hs_spi_destroy guarantees that no
\* other thread is using the object
DestroyPrecondition(t) == \A u \in Threads \ {t} : Idle(u)

Destroying == \E u \in Threads : op[u] = "hs_spi_destroy" /\ ~Idle(u)

\* The end of a call of function o with arguments a that returns code.  A
\* caller that keeps the outcome holds the returned value, its output buffer
\* and the record of what the call did until its next call; otherwise the
\* thread is idle again and nothing of the call is left.
Outcome(t, o, a, code, lg, rd, rem, io) ==
    /\ tx_buf' = [tx_buf EXCEPT ![t] = <<>>]
    /\ rx_buf' = [rx_buf EXCEPT ![t] = <<>>]
    /\ pc' = [pc EXCEPT ![t] = IF keep THEN "done" ELSE "idle"]
    /\ ret' = [ret EXCEPT ![t] = IF keep THEN code ELSE 0]
    /\ log' = [log EXCEPT ![t] = IF keep THEN lg ELSE <<>>]
    /\ read_data' = [read_data EXCEPT ![t] = IF keep THEN rd ELSE <<>>]
    /\ op' = [op EXCEPT ![t] = IF keep THEN o ELSE "none"]
    /\ arg' = [arg EXCEPT ![t] = IF keep THEN a ELSE NoArgs]
    /\ remain_data_len' = [remain_data_len EXCEPT ![t] = IF keep THEN rem ELSE 0]
    /\ io_ret' = [io_ret EXCEPT ![t] = IF keep THEN io ELSE 0]

\* "return code" inside the function thread t called
Return(t, code, lg, rd) ==
    Outcome(t, op[t], arg[t], code, lg, rd, remain_data_len[t], io_ret[t])

\* the function goes on at position p
Goto(t, p) == pc' = [pc EXCEPT ![t] = p]

(* ----------------------------- the calls ------------------------------- *)

\* hs_spi_create: a new object replaces the destroyed one
Create(t) ==
    /\ ~alive
    /\ \A u \in Threads : Idle(u)
    /\ alive' = TRUE
    /\ fd' = InvalidFd
    /\ cs_control_cb' = NULL
    /\ max_transfer_len' = 0
    /\ mutex' = NoThread
    /\ requested_len' = -1
    /\ Outcome(t, "hs_spi_create", NoArgs, 0, <<>>, <<>>, 0, 0)
    /\ UNCHANGED <<open_fds, heap, keep>>

\* entry of any function other than hs_spi_create: the checks made before the
\* lock is taken
Call(t, o, a) ==
    /\ Idle(t)
    /\ a.hs_null \/ (alive /\ ~Destroying)
    /\ (o = "hs_spi_destroy" /\ ~a.hs_null) => DestroyPrecondition(t)
    /\ IF CheckArgs(o, a) < 0
       THEN Outcome(t, o, a, CheckArgs(o, a), <<>>,
                    IF HasRead(o) /\ ~a.rnull THEN Fresh(a.rlen) ELSE <<>>, 0, 0)
       ELSE /\ Goto(t, "lock")
            /\ op' = [op EXCEPT ![t] = o]
            /\ arg' = [arg EXCEPT ![t] = a]
            /\ log' = [log EXCEPT ![t] = <<>>]
            /\ read_data' = [read_data EXCEPT ![t] =
                                IF HasRead(o) THEN Fresh(a.rlen) ELSE <<>>]
            /\ remain_data_len' = [remain_data_len EXCEPT ![t] = 0]
            /\ io_ret' = [io_ret EXCEPT ![t] = 0]
            /\ tx_buf' = [tx_buf EXCEPT ![t] = <<>>]
            /\ rx_buf' = [rx_buf EXCEPT ![t] = <<>>]
            /\ ret' = [ret EXCEPT ![t] = 0]
    /\ UNCHANGED <<handle_vars, mutex, heap, keep>>

\* hs_spi_init and hs_spi_destroy going on without the mutex
Lock_TransfersOnly(t) ==
    /\ pc[t] = "lock"
    /\ IF op[t] \in {"hs_spi_init", "hs_spi_destroy"}
       THEN UNCHANGED mutex
       ELSE pthread_mutex_lock(t)
    /\ Goto(t, "locked")
    /\ UNCHANGED <<handle_vars, heap, op, arg, remain_data_len, tx_buf, rx_buf,
                   read_data, io_ret, log, ret, keep>>

\* the two setters going on without the mutex
Lock_SettersUnlocked(t) ==
    /\ pc[t] = "lock"
    /\ IF op[t] \in SetterOps
       THEN UNCHANGED mutex
       ELSE pthread_mutex_lock(t)
    /\ Goto(t, "locked")
    /\ UNCHANGED <<handle_vars, heap, op, arg, remain_data_len, tx_buf, rx_buf,
                   read_data, io_ret, log, ret, keep>>

\* pthread_mutex_lock(&hs_spi->mutex) of every function
Lock(t) ==
    /\ pc[t] = "lock"
    /\ pthread_mutex_lock(t)
    /\ Goto(t, "locked")
    /\ UNCHANGED <<handle_vars, heap, op, arg, remain_data_len, tx_buf, rx_buf,
                   read_data, io_ret, log, ret, keep>>

\* the descriptor open() returns: the lowest one that is not open
\* (0, 1 and 2 are the standard streams)
LowestFreeFd(used) == CHOOSE n \in 3..(3 + Cardinality(used)) :
                         /\ n \notin used
                         /\ \A m \in 3..(n - 1) : m \in used

\* hs_spi_init without the default
InitMaxTransferLen_Raw(cur) == cur

\* hs_spi_init that sets the default whatever was stored
InitMaxTransferLen_Always(cur) == DefaultMaxTransferLen

\* what hs_spi_init stores in max_transfer_len on success
InitMaxTransferLen(cur) == IF cur = 0 THEN DefaultMaxTransferLen ELSE cur

\* hs_spi_init that opens the device without closing the descriptor it holds
InitBody_NoClose(t, outcome) ==
    /\ pc[t] = "locked"
    /\ op[t] = "hs_spi_init"
    /\ LET new == LowestFreeFd(open_fds)
       IN IF outcome = 0
          THEN /\ fd' = new
               /\ open_fds' = open_fds \cup {new}
               /\ max_transfer_len' = InitMaxTransferLen(max_transfer_len)
          ELSE /\ fd' = InvalidFd
               /\ UNCHANGED open_fds
               /\ UNCHANGED max_transfer_len
    /\ pthread_mutex_unlock(t)
    /\ Return(t, outcome, log[t], read_data[t])
    /\ UNCHANGED <<alive, cs_control_cb, requested_len, heap, keep>>

\* the locked part of hs_spi_init; outcome is the value it returns: -3 when
\* open() fails, -4 .. -9 when the k-th configuration ioctl fails, 0 on success
InitOutcomes == {0} \cup (-9 .. -3)
InitBody(t, outcome) ==
    /\ pc[t] = "locked"
    /\ op[t] = "hs_spi_init"
    /\ LET closed == IF fd /= InvalidFd THEN open_fds \ {fd} ELSE open_fds
           new == LowestFreeFd(closed)
       IN IF outcome = 0
          THEN /\ fd' = new
               /\ open_fds' = closed \cup {new}
               /\ max_transfer_len' = InitMaxTransferLen(max_transfer_len)
          ELSE /\ fd' = InvalidFd
               /\ open_fds' = closed
               /\ UNCHANGED max_transfer_len
    /\ pthread_mutex_unlock(t)
    /\ Return(t, outcome, log[t], read_data[t])
    /\ UNCHANGED <<alive, cs_control_cb, requested_len, heap, keep>>

\* the locked part of hs_spi_destroy, the destruction of the mutex and free()
DestroyBody(t) ==
    /\ pc[t] = "locked"
    /\ op[t] = "hs_spi_destroy"
    /\ open_fds' = IF fd /= InvalidFd THEN open_fds \ {fd} ELSE open_fds
    /\ fd' = InvalidFd
    /\ pthread_mutex_unlock(t)
    /\ alive' = FALSE
    /\ Return(t, 0, log[t], read_data[t])
    /\ UNCHANGED <<cs_control_cb, max_transfer_len, requested_len, heap, keep>>

\* the locked part of hs_spi_set_cs_control_cb
SetCsControlCb(t) ==
    /\ pc[t] = "locked"
    /\ op[t] = "hs_spi_set_cs_control_cb"
    /\ cs_control_cb' = arg[t].cb
    /\ pthread_mutex_unlock(t)
    /\ Return(t, 0, log[t], read_data[t])
    /\ UNCHANGED <<alive, fd, max_transfer_len, open_fds, requested_len, heap, keep>>

\* the value stored as it was passed
NormalizeMaxTransferLen_Raw(v) == v

\* what hs_spi_set_max_transfer_len stores
NormalizeMaxTransferLen(v) == IF v = 0 THEN DefaultMaxTransferLen ELSE v

\* the locked part of hs_spi_set_max_transfer_len
SetMaxTransferLen(t) ==
    /\ pc[t] = "locked"
    /\ op[t] = "hs_spi_set_max_transfer_len"
    /\ max_transfer_len' = NormalizeMaxTransferLen(arg[t].val)
    /\ requested_len' = arg[t].val
    /\ pthread_mutex_unlock(t)
    /\ Return(t, 0, log[t], read_data[t])
    /\ UNCHANGED <<alive, fd, cs_control_cb, open_fds, heap, keep>>

(* ------------------------ the transfer functions ----------------------- *)

\* a transfer function that does not look at the descriptor
CheckFd_Skipped(t) ==
    /\ pc[t] = "locked"
    /\ op[t] \in TransferOps
    /\ Goto(t, IF IsDuplex(op[t]) THEN "alloc_tx" ELSE "cs_assert")
    /\ UNCHANGED <<mutex, op, arg, remain_data_len, tx_buf, rx_buf, read_data,
                   io_ret, log, ret>>
    /\ UNCHANGED <<handle_vars, heap, keep>>

\* "if (hs_spi->fd < 0)" right after the lock was taken
CheckFd(t) ==
    /\ pc[t] = "locked"
    /\ op[t] \in TransferOps
    /\ IF fd < 0
       THEN /\ pthread_mutex_unlock(t)
            /\ Return(t, ErrNotInit(op[t]), log[t], read_data[t])
       ELSE /\ Goto(t, IF IsDuplex(op[t]) THEN "alloc_tx" ELSE "cs_assert")
            /\ UNCHANGED <<mutex, op, arg, remain_data_len, tx_buf, rx_buf, read_data,
                           io_ret, log, ret>>
    /\ UNCHANGED <<handle_vars, heap, keep>>

\* tx_buf without the memset: the bytes after the write data are whatever
\* malloc left there
TxScratch_NoMemset(wlen, transfer_len) ==
    Store([i \in 1..transfer_len |-> 255], 0, WriteData(wlen))

\* the content of tx_buf after memset and memcpy
TxScratch(wlen, transfer_len) == Store(Zeros(transfer_len), 0, WriteData(wlen))

\* malloc of tx_buf in the two full-duplex functions; ok is malloc's outcome
AllocTx(t, ok) ==
    /\ pc[t] = "alloc_tx"
    /\ IF ok
       THEN /\ heap' = heap \cup {<<t, "tx">>}
            /\ tx_buf' = [tx_buf EXCEPT ![t] =
                             TxScratch(arg[t].wlen, TotalLen(op[t], arg[t]))]
            /\ Goto(t, "alloc_rx")
            /\ UNCHANGED <<mutex, op, arg, remain_data_len, rx_buf, read_data, io_ret,
                           log, ret>>
       ELSE /\ pthread_mutex_unlock(t)
            /\ Return(t, ErrTxAlloc(op[t]), log[t], read_data[t])
            /\ UNCHANGED heap
    /\ UNCHANGED <<handle_vars, keep>>

\* the rx_buf failure exit without free(tx_buf)
AllocRx_Leak(t, ok) ==
    /\ pc[t] = "alloc_rx"
    /\ IF ok
       THEN /\ heap' = heap \cup {<<t, "rx">>}
            /\ rx_buf' = [rx_buf EXCEPT ![t] = Zeros(TotalLen(op[t], arg[t]))]
            /\ Goto(t, "cs_assert")
            /\ UNCHANGED <<mutex, op, arg, remain_data_len, tx_buf, read_data, io_ret,
                           log, ret>>
       ELSE /\ UNCHANGED heap
            /\ pthread_mutex_unlock(t)
            /\ Return(t, ErrRxAlloc(op[t]), log[t], read_data[t])
    /\ UNCHANGED <<handle_vars, keep>>

\* malloc of rx_buf in the two full-duplex functions
AllocRx(t, ok) ==
    /\ pc[t] = "alloc_rx"
    /\ IF ok
       THEN /\ heap' = heap \cup {<<t, "rx">>}
            /\ rx_buf' = [rx_buf EXCEPT ![t] = Zeros(TotalLen(op[t], arg[t]))]
            /\ Goto(t, "cs_assert")
            /\ UNCHANGED <<mutex, op, arg, remain_data_len, tx_buf, read_data, io_ret,
                           log, ret>>
       ELSE /\ heap' = heap \ {<<t, "tx">>}
            /\ pthread_mutex_unlock(t)
            /\ Return(t, ErrRxAlloc(op[t]), log[t], read_data[t])
    /\ UNCHANGED <<handle_vars, keep>>

\* the results a chip-select callback may return
CbResults == {0, -1}

\* the assertion failure exit without the unlock
CsAssert_NoUnlock(t, r) ==
    /\ pc[t] = "cs_assert"
    /\ cs_control_cb = NULL => r = 0
    /\ IF CsControlResult(r) < 0
       THEN /\ heap' = FreeScratch(t)
            /\ UNCHANGED mutex
            /\ Return(t, ErrCs(op[t]), CsControlLog(t, TRUE, r), read_data[t])
       ELSE /\ log' = [log EXCEPT ![t] = CsControlLog(t, TRUE, r)]
            /\ remain_data_len' = [remain_data_len EXCEPT ![t] = TotalLen(op[t], arg[t])]
            /\ Goto(t, "loop")
            /\ UNCHANGED <<heap, mutex, op, arg, tx_buf, rx_buf, read_data, io_ret, ret>>
    /\ UNCHANGED <<handle_vars, keep>>

\* "if (hs_spi_cs_control(hs_spi, true) < 0)"; r is what the callback returns
CsAssert(t, r) ==
    /\ pc[t] = "cs_assert"
    /\ cs_control_cb = NULL => r = 0
    /\ IF CsControlResult(r) < 0
       THEN /\ heap' = FreeScratch(t)
            /\ pthread_mutex_unlock(t)
            /\ Return(t, ErrCs(op[t]), CsControlLog(t, TRUE, r), read_data[t])
       ELSE /\ log' = [log EXCEPT ![t] = CsControlLog(t, TRUE, r)]
            /\ remain_data_len' = [remain_data_len EXCEPT ![t] = TotalLen(op[t], arg[t])]
            /\ Goto(t, "loop")
            /\ UNCHANGED <<heap, mutex, op, arg, tx_buf, rx_buf, read_data, io_ret, ret>>
    /\ UNCHANGED <<handle_vars, keep>>

\* "current_len = remain_data_len > max ? max : remain_data_len"
CurrentLen(remain, limit) == IF remain > limit THEN limit ELSE remain

\* every segment taken from the start of the buffer
DataOffset_Start(total, remain) == total - total

\* "data_offset = total - remain_data_len"
DataOffset(total, remain) == total - remain

\* the register address sent with every segment
IsFirstPacket_Always(o, total, remain) == IsSub(o)

\* the first pass of a *_sub function sends the register address
\* ("if (remain_data_len == write_data_len)")
IsFirstPacket(o, total, remain) == IsSub(o) /\ remain = total

\* the native call of one pass of the loop, as the driver sees it
Segment(t, r, reply) ==
    LET o == op[t]
        total == TotalLen(o, arg[t])
        remain == remain_data_len[t]
        cur == CurrentLen(remain, max_transfer_len)
        off == DataOffset(total, remain)
        first == IsFirstPacket(o, total, remain)
        src == IF IsDuplex(o) THEN tx_buf[t] ELSE WriteData(arg[t].wlen)
    IN IoEvent(IF first THEN 2 ELSE 1,
               IF first THEN <<arg[t].reg>> ELSE <<>>,
               off, cur, max_transfer_len,
               IF HasWrite(o) THEN Slice(src, off, cur) ELSE <<>>,
               IF HasRead(o) /\ r >= 0 THEN reply ELSE <<>>,
               r)

\* the results of ioctl(SPI_IOC_MESSAGE(n))
IoResults == {0, -1}

\* a loop that tries a failed segment again
Transfer_Retry(t, r, seed) ==
    /\ pc[t] = "loop"
    /\ remain_data_len[t] > 0
    /\ LET o == op[t]
           cur == CurrentLen(remain_data_len[t], max_transfer_len)
           off == DataOffset(TotalLen(o, arg[t]), remain_data_len[t])
           reply == DeviceReply(seed, cur)
       IN /\ log' = [log EXCEPT ![t] = Append(log[t], Segment(t, r, reply))]
          /\ io_ret' = [io_ret EXCEPT ![t] = r]
          /\ IF r < 0
             THEN /\ Goto(t, IF Len(log[t]) < 6 THEN "loop" ELSE "io_fail")
                  /\ UNCHANGED <<remain_data_len, rx_buf, read_data>>
             ELSE /\ remain_data_len' = [remain_data_len EXCEPT ![t] = @ - cur]
                  /\ rx_buf' = [rx_buf EXCEPT ![t] =
                                   IF IsDuplex(o) THEN Store(@, off, reply) ELSE @]
                  /\ read_data' = [read_data EXCEPT ![t] =
                                   IF HasRead(o) /\ ~IsDuplex(o) THEN Store(@, off, reply)
                                   ELSE @]
                  /\ UNCHANGED pc
    /\ UNCHANGED <<handle_vars, mutex, heap, op, arg, tx_buf, ret, keep>>

\* one pass of "while (remain_data_len > 0)": the native call and, when it
\* succeeded, "remain_data_len -= current_len"
Transfer(t, r, seed) ==
    /\ pc[t] = "loop"
    /\ remain_data_len[t] > 0
    /\ LET o == op[t]
           cur == CurrentLen(remain_data_len[t], max_transfer_len)
           off == DataOffset(TotalLen(o, arg[t]), remain_data_len[t])
           reply == DeviceReply(seed, cur)
       IN /\ log' = [log EXCEPT ![t] = Append(log[t], Segment(t, r, reply))]
          /\ io_ret' = [io_ret EXCEPT ![t] = r]
          /\ IF r < 0
             THEN /\ Goto(t, "io_fail")
                  /\ UNCHANGED <<remain_data_len, rx_buf, read_data>>
             ELSE /\ remain_data_len' = [remain_data_len EXCEPT ![t] = @ - cur]
                  /\ rx_buf' = [rx_buf EXCEPT ![t] =
                                   IF IsDuplex(o) THEN Store(@, off, reply) ELSE @]
                  /\ read_data' = [read_data EXCEPT ![t] =
                                   IF HasRead(o) /\ ~IsDuplex(o) THEN Store(@, off, reply)
                                   ELSE @]
                  /\ UNCHANGED pc
    /\ UNCHANGED <<handle_vars, mutex, heap, op, arg, tx_buf, ret, keep>>

\* the error exit of the loop without the de-assertion
IoFailure_NoDeassert(t, r) ==
    /\ pc[t] = "io_fail"
    /\ r = 0
    /\ heap' = FreeScratch(t)
    /\ pthread_mutex_unlock(t)
    /\ Return(t, ErrIo(op[t]), log[t], read_data[t])
    /\ UNCHANGED <<handle_vars, keep>>

\* a failed native call that leaves the loop with "break" instead of returning
IoFailure_Break(t, r) ==
    /\ pc[t] = "io_fail"
    /\ cs_control_cb = NULL => r = 0
    /\ log' = [log EXCEPT ![t] = CsControlLog(t, FALSE, r)]
    /\ Goto(t, "finish")
    /\ UNCHANGED <<handle_vars, mutex, heap, op, arg, remain_data_len, tx_buf, rx_buf,
                   read_data, io_ret, ret, keep>>

\* the error exit of the loop handing the bytes received so far to the caller
IoFailure_CopiesOut(t, r) ==
    /\ pc[t] = "io_fail"
    /\ cs_control_cb = NULL => r = 0
    /\ heap' = FreeScratch(t)
    /\ pthread_mutex_unlock(t)
    /\ Return(t, ErrIo(op[t]), CsControlLog(t, FALSE, r),
              IF IsDuplex(op[t])
              THEN Store(read_data[t], 0, Slice(rx_buf[t], 0, arg[t].rlen))
              ELSE read_data[t])
    /\ UNCHANGED <<handle_vars, keep>>

\* the "if (ret < 0)" exit of the loop: release, de-assert, unlock, return
IoFailure(t, r) ==
    /\ pc[t] = "io_fail"
    /\ cs_control_cb = NULL => r = 0
    /\ heap' = FreeScratch(t)
    /\ pthread_mutex_unlock(t)
    /\ Return(t, ErrIo(op[t]), CsControlLog(t, FALSE, r), read_data[t])
    /\ UNCHANGED <<handle_vars, keep>>

\* the loop left without the de-assertion
LoopExit_NoDeassert(t, r) ==
    /\ pc[t] = "loop"
    /\ ~(remain_data_len[t] > 0)
    /\ r = 0
    /\ UNCHANGED log
    /\ Goto(t, "finish")
    /\ UNCHANGED <<handle_vars, mutex, heap, op, arg, remain_data_len, tx_buf, rx_buf,
                   read_data, io_ret, ret, keep>>

\* the loop condition is false: "hs_spi_cs_control(hs_spi, false)" after the loop
LoopExit(t, r) ==
    /\ pc[t] = "loop"
    /\ ~(remain_data_len[t] > 0)
    /\ cs_control_cb = NULL => r = 0
    /\ log' = [log EXCEPT ![t] = CsControlLog(t, FALSE, r)]
    /\ Goto(t, "finish")
    /\ UNCHANGED <<handle_vars, mutex, heap, op, arg, remain_data_len, tx_buf, rx_buf,
                   read_data, io_ret, ret, keep>>

\* "memcpy(read_data, rx_buf, read_data_len)" of the full-duplex functions
CopyOut(o, out, rx, rlen) == IF IsDuplex(o) THEN Store(out, 0, Slice(rx, 0, rlen)) ELSE out

\* a return that reports what the callback answered to the de-assertion
Finish_ReportsDeassert(t) ==
    /\ pc[t] = "finish"
    /\ heap' = FreeScratch(t)
    /\ pthread_mutex_unlock(t)
    /\ IF log[t] /= <<>> /\ log[t][Len(log[t])].kind = "cs" /\ log[t][Len(log[t])].res < 0
       THEN Return(t, ErrCs(op[t]), log[t], read_data[t])
       ELSE Return(t, 0, log[t], CopyOut(op[t], read_data[t], rx_buf[t], arg[t].rlen))
    /\ UNCHANGED <<handle_vars, keep>>

\* "if (remain_data_len != 0)" and the successful return
Finish(t) ==
    /\ pc[t] = "finish"
    /\ heap' = FreeScratch(t)
    /\ pthread_mutex_unlock(t)
    /\ IF remain_data_len[t] /= 0
       THEN Return(t, ErrRemain(op[t]), log[t], read_data[t])
       ELSE Return(t, 0, log[t], CopyOut(op[t], read_data[t], rx_buf[t], arg[t].rlen))
    /\ UNCHANGED <<handle_vars, keep>>

(* --------------------------- the callers ------------------------------- *)

\* the register address a function takes (none for the plain functions)
RegOf(o) == IF IsSub(o) THEN CHOOSE x \in RegAddrs : TRUE ELSE 0

\* the argument list of transfer function o
TransferArgs(o, hn, wn, wl, rn, rl) ==
    Args(hn, HasWrite(o) /\ wn, IF HasWrite(o) THEN wl ELSE 0,
         HasRead(o) /\ rn, IF HasRead(o) THEN rl ELSE 0, RegOf(o), 0, NULL)

\* calls that pass the checks: data lengths up to L, duplex lengths up to D
ValidArgs(o, L, D) ==
    IF IsDuplex(o)
    THEN {TransferArgs(o, FALSE, FALSE, w, FALSE, r) : w \in 1..D, r \in 1..D}
    ELSE {TransferArgs(o, FALSE, FALSE, n, FALSE, n) : n \in 1..L}

\* calls that violate one precondition or more
InvalidArgs(o) ==
    {a \in {TransferArgs(o, hn, wn, wl, rn, rl) :
                hn \in BOOLEAN, wn \in BOOLEAN, wl \in 0..1, rn \in BOOLEAN, rl \in 0..1} :
        CheckArgs(o, a) < 0}

InitArgsSet == {Args(hn, nn, 0, FALSE, 0, 0, 0, NULL) : hn \in BOOLEAN, nn \in BOOLEAN}
HandleArgsSet == {Args(hn, FALSE, 0, FALSE, 0, 0, 0, NULL) : hn \in BOOLEAN}
CbArgsSet == {Args(hn, FALSE, 0, FALSE, 0, 0, 0, cb) :
                 hn \in BOOLEAN, cb \in Callbacks \cup {NULL}}
ChunkArgsSet(chunks) == {Args(hn, FALSE, 0, FALSE, 0, 0, v, NULL) :
                            hn \in BOOLEAN, v \in chunks}

\* the state after hs_spi_create
InitState(k) ==
    /\ alive = TRUE
    /\ fd = InvalidFd
    /\ cs_control_cb = NULL
    /\ max_transfer_len = 0
    /\ mutex = NoThread
    /\ open_fds = {}
    /\ requested_len = -1
    /\ heap = {}
    /\ pc = [t \in Threads |-> "idle"]
    /\ op = [t \in Threads |-> "none"]
    /\ arg = [t \in Threads |-> NoArgs]
    /\ remain_data_len = [t \in Threads |-> 0]
    /\ tx_buf = [t \in Threads |-> <<>>]
    /\ rx_buf = [t \in Threads |-> <<>>]
    /\ read_data = [t \in Threads |-> <<>>]
    /\ io_ret = [t \in Threads |-> 0]
    /\ log = [t \in Threads |-> <<>>]
    /\ ret = [t \in Threads |-> 0]
    /\ keep = k

\* a call made by thread t
CallTransfer(t, argsets) == \E o \in TransferOps : \E a \in argsets[o] : Call(t, o, a)
CallInit(t) == \E a \in InitArgsSet : Call(t, "hs_spi_init", a)
CallDestroy(t) == \E a \in HandleArgsSet : Call(t, "hs_spi_destroy", a)
CallSetCb(t) == \E a \in CbArgsSet : Call(t, "hs_spi_set_cs_control_cb", a)
CallSetLen(t, chunks) ==
    \E a \in ChunkArgsSet(chunks) : Call(t, "hs_spi_set_max_transfer_len", a)

\* a step of thread t inside the function it called
Body(t, seeds) ==
    \/ Lock(t)
    \/ \E outcome \in InitOutcomes : InitBody(t, outcome)
    \/ DestroyBody(t)
    \/ SetCsControlCb(t)
    \/ SetMaxTransferLen(t)
    \/ CheckFd(t)
    \/ \E ok \in BOOLEAN : AllocTx(t, ok)
    \/ \E ok \in BOOLEAN : AllocRx(t, ok)
    \/ \E r \in CbResults : CsAssert(t, r)
    \/ \E r \in IoResults, seed \in seeds : Transfer(t, r, seed)
    \/ \E r \in CbResults : IoFailure(t, r)
    \/ \E r \in CbResults : LoopExit(t, r)
    \/ Finish(t)

\* several threads share the object and forget the outcome of their calls;
\* short data (one byte each way in the full-duplex calls), valid arguments
ConcArgs == [o \in TransferOps |-> ValidArgs(o, MaxLen, 1)]
ConcChunks == 0..1
ConcSeeds == {CHOOSE x \in RxSeeds : TRUE}

Init == InitState(FALSE)

Next ==
    \E t \in Threads :
        \/ Create(t)
        \/ CallTransfer(t, ConcArgs)
        \/ CallInit(t)
        \/ CallDestroy(t)
        \/ CallSetCb(t)
        \/ CallSetLen(t, ConcChunks)
        \/ Body(t, ConcSeeds)

Spec == Init /\ [][Next]_vars

\* The threads of Spec when every native call and every callback invocation
\* returns (a thread inside a function goes on) and the mutex is granted
\* fairly (a thread that waits for it while it is free again and again
\* gets it).
\* Every transfer function is called with its longest data of ConcArgs.
FairArgs == [o \in TransferOps |->
                {a \in ConcArgs[o] :
                    \A b \in ConcArgs[o] : TotalLen(o, b) <= TotalLen(o, a)}]

NextFair ==
    \E t \in Threads :
        \/ Create(t)
        \/ CallTransfer(t, FairArgs)
        \/ CallInit(t)
        \/ CallDestroy(t)
        \/ CallSetCb(t)
        \/ CallSetLen(t, ConcChunks)
        \/ Body(t, ConcSeeds)

SpecFair ==
    /\ Init /\ [][NextFair]_vars
    /\ \A t \in Threads : WF_vars(Body(t, ConcSeeds))
    /\ \A t \in Threads : SF_vars(Lock(t))

\* hs_spi_destroy called without the serialization hs_spi.h asks for, while
\* another thread is inside a function and past its pthread_mutex_lock.  No
\* thread waits for the mutex and none calls later: what a thread does with
\* a mutex that was destroyed and an object that was freed is undefined.
CallDestroyRacing(t) ==
    /\ Idle(t)
    /\ alive /\ ~Destroying
    /\ \E u \in Threads \ {t} : ~Idle(u)
    /\ \A u \in Threads \ {t} : pc[u] /= "lock"
    /\ Goto(t, "lock")
    /\ op' = [op EXCEPT ![t] = "hs_spi_destroy"]
    /\ arg' = [arg EXCEPT ![t] = NoArgs]
    /\ log' = [log EXCEPT ![t] = <<>>]
    /\ read_data' = [read_data EXCEPT ![t] = <<>>]
    /\ remain_data_len' = [remain_data_len EXCEPT ![t] = 0]
    /\ io_ret' = [io_ret EXCEPT ![t] = 0]
    /\ tx_buf' = [tx_buf EXCEPT ![t] = <<>>]
    /\ rx_buf' = [rx_buf EXCEPT ![t] = <<>>]
    /\ ret' = [ret EXCEPT ![t] = 0]
    /\ UNCHANGED <<handle_vars, mutex, heap, keep>>

\* the threads of Spec with callers that do not serialize hs_spi_destroy
NextRace ==
    \E t \in Threads :
        \/ Create(t)
        \/ CallTransfer(t, ConcArgs)
        \/ CallInit(t)
        \/ CallDestroy(t)
        \/ CallDestroyRacing(t)
        \/ CallSetCb(t)
        \/ CallSetLen(t, ConcChunks)
        \/ Body(t, ConcSeeds)

SpecRace == Init /\ [][NextRace]_vars

\* one thread uses the object and keeps the outcome of every call; long data,
\* every combination of bad arguments
SeqArgs == [o \in TransferOps |-> ValidArgs(o, MaxSeqLen, MaxDuplexLen) \cup InvalidArgs(o)]
SeqChunks == (0..MaxChunk) \cup {DefaultMaxTransferLen}
MainThread == CHOOSE t \in Threads : \A u \in Threads : t <= u

InitSeq == InitState(TRUE)

NextSeq ==
    \/ Create(MainThread)
    \/ CallTransfer(MainThread, SeqArgs)
    \/ CallInit(MainThread)
    \/ CallDestroy(MainThread)
    \/ CallSetCb(MainThread)
    \/ CallSetLen(MainThread, SeqChunks)
    \/ Body(MainThread, RxSeeds)

SpecSeq == InitSeq /\ [][NextSeq]_vars

(* ------------------------ reading a thread's log ----------------------- *)

\* the native calls of a log, in order
IoCalls(lg) == SelectSeq(lg, LAMBDA e : e.kind = "ioctl")
\* the callback invocations of a log, in order
CsCalls(lg) == SelectSeq(lg, LAMBDA e : e.kind = "cs")
\* the enable arguments of the callback invocations
CsEnables(lg) == [i \in 1..Len(CsCalls(lg)) |-> CsCalls(lg)[i].enable]

RECURSIVE SumLen(_)
SumLen(io) == IF io = <<>> THEN 0 ELSE io[1].len + SumLen(Tail(io))

\* the data bytes sent, resp. received, by the native calls of io, in order
RECURSIVE WireTx(_)
WireTx(io) == IF io = <<>> THEN <<>> ELSE io[1].tx \o WireTx(Tail(io))
RECURSIVE WireRx(_)
WireRx(io) == IF io = <<>> THEN <<>> ELSE io[1].rx \o WireRx(Tail(io))

Lens(io) == [i \in 1..Len(io) |-> io[i].len]
Offsets(io) == [i \in 1..Len(io) |-> io[i].off]

\* thread t holds the outcome of a transfer call that passed the argument checks
Returned(t) == pc[t] = "done" /\ op[t] \in TransferOps /\ CheckArgs(op[t], arg[t]) = 0
\* ... and got as far as hs_spi_cs_control(hs_spi, true)
ReachedAssert(t) ==
    /\ Returned(t)
    /\ ret[t] \in {0, ErrCs(op[t]), ErrIo(op[t]), ErrRemain(op[t])}

\* thread t is between its chip-select assertion and its de-assertion
InBracket(t) == pc[t] \in {"loop", "io_fail"}
\* thread t calls hs_spi_cs_control or issues a native call in this step
BusStep(t) ==
    /\ pc[t] \in {"cs_assert", "loop", "io_fail"}
    /\ <<pc[t], log[t], remain_data_len[t]>>' /= <<pc[t], log[t], remain_data_len[t]>>
\* the positions at which a thread holds the mutex
Holding == {"locked", "alloc_tx", "alloc_rx", "cs_assert", "loop", "io_fail", "finish"}

(* ------------------------------- claims -------------------------------- *)

\* C1: the assert / native calls / de-assert bracket of one transfer never
\* interleaves with another's: at most one thread is inside a bracket, and a
\* thread calls the chip-select control or issues a native call only while no
\* other thread is inside its bracket.
C1_BracketsDoNotInterleave ==
    /\ [](Cardinality({t \in Threads : InBracket(t)}) <= 1)
    /\ [][\A t \in Threads : \A u \in Threads \ {t} : BusStep(t) => ~InBracket(u)]_vars

\* a thread is inside its bracket after a native call while another thread,
\* which called a transfer function too, waits for the mutex
C1_Witness ==
    \E t \in Threads : \E u \in Threads \ {t} :
        /\ pc[t] = "loop" /\ Len(IoCalls(log[t])) >= 1 /\ remain_data_len[t] > 0
        /\ pc[u] = "lock" /\ op[u] \in TransferOps

\* C2: the segments of a transfer have lengths 1..C, start at offset 0, each
\* starts where the previous one ended, and when the call returns 0 they sum
\* to the payload length L with nothing remaining; C=4, L=10 gives lengths
\* 4,4,2 at offsets 0,4,8.
C2_SegmentsCoverPayload ==
    \A t \in Threads :
        op[t] \in TransferOps =>
            LET io == IoCalls(log[t])
                L == TotalLen(op[t], arg[t])
            IN /\ \A i \in 1..Len(io) :
                    /\ io[i].len >= 1
                    /\ io[i].len <= io[i].limit
                    /\ io[i].off = IF i = 1 THEN 0 ELSE io[i - 1].off + io[i - 1].len
               /\ (Returned(t) /\ ret[t] = 0) =>
                    /\ SumLen(io) = L
                    /\ remain_data_len[t] = 0
                    /\ io[Len(io)].off + io[Len(io)].len = L
               /\ (Returned(t) /\ ret[t] = 0 /\ L = 10 /\ max_transfer_len = 4) =>
                    /\ Lens(io) = <<4, 4, 2>>
                    /\ Offsets(io) = <<0, 4, 8>>

\* hs_spi_write_data of 10 bytes with a chunk limit of 4 returned 0
C2_Witness ==
    \E t \in Threads :
        /\ Returned(t) /\ ret[t] = 0 /\ op[t] = "hs_spi_write_data"
        /\ arg[t].wlen = 10 /\ max_transfer_len = 4
        /\ Len(IoCalls(log[t])) = 3

\* C3: a register-addressed transfer sends the address byte exactly once: its
\* first native call has two parts (the address, then the first data segment)
\* and every later one has one part and no address; a read of 5 bytes with a
\* chunk limit of 3 issues {addr:1, data:3} and then {data:2}.
C3_AddressOnlyInFirstCall ==
    \A t \in Threads :
        (op[t] \in TransferOps /\ IsSub(op[t])) =>
            LET io == IoCalls(log[t])
            IN /\ \A i \in 1..Len(io) :
                    IF i = 1
                    THEN io[i].n = 2 /\ io[i].addr = <<arg[t].reg>>
                    ELSE io[i].n = 1 /\ io[i].addr = <<>>
               /\ (Returned(t) /\ ret[t] = 0 /\ op[t] = "hs_spi_read_data_sub"
                      /\ arg[t].rlen = 5 /\ max_transfer_len = 3) =>
                    /\ Len(io) = 2
                    /\ io[1].n = 2 /\ Len(io[1].addr) = 1 /\ io[1].len = 3
                    /\ io[2].n = 1 /\ Len(io[2].addr) = 0 /\ io[2].len = 2

\* hs_spi_read_data_sub of 5 bytes with a chunk limit of 3 returned 0
C3_Witness ==
    \E t \in Threads :
        /\ Returned(t) /\ ret[t] = 0 /\ op[t] = "hs_spi_read_data_sub"
        /\ arg[t].rlen = 5 /\ max_transfer_len = 3
        /\ Len(IoCalls(log[t])) = 2

\* C4 as stated: with a callback installed, every transfer that reached the
\* assertion step invoked it exactly twice, with true and then with false, and
\* every transfer that failed earlier invoked it zero times.
C4_Original ==
    \A t \in Threads :
        (pc[t] = "done" /\ op[t] \in TransferOps /\ cs_control_cb /= NULL) =>
            IF ReachedAssert(t)
            THEN CsEnables(log[t]) = <<TRUE, FALSE>>
            ELSE CsEnables(log[t]) = <<>>

\* C4 as amended: with a callback installed, a transfer whose assertion
\* callback succeeded invoked it exactly twice, with true and then with false;
\* a transfer whose assertion callback returned a negative value invoked it
\* exactly once, with true; a transfer that failed before the assertion step
\* invoked it zero times.
C4_CallbackCounts ==
    \A t \in Threads :
        (pc[t] = "done" /\ op[t] \in TransferOps /\ cs_control_cb /= NULL) =>
            IF ReachedAssert(t) /\ ret[t] /= ErrCs(op[t])
            THEN CsEnables(log[t]) = <<TRUE, FALSE>>
            ELSE IF ReachedAssert(t)
            THEN CsEnables(log[t]) = <<TRUE>> /\ CsCalls(log[t])[1].res < 0
            ELSE CsEnables(log[t]) = <<>>

\* a transfer with a callback installed returned 0 after two invocations
C4_Witness ==
    \E t \in Threads :
        /\ Returned(t) /\ ret[t] = 0 /\ cs_control_cb /= NULL
        /\ CsEnables(log[t]) = <<TRUE, FALSE>>
        /\ Len(IoCalls(log[t])) >= 2

\* C5: a transfer that returns the error of a failed native call has invoked
\* the callback with enable=false after its last native call, and no returned
\* transfer leaves a successful assertion without a later de-assertion.
C5_DeassertBeforeErrorReturn ==
    \A t \in Threads :
        (Returned(t) /\ cs_control_cb /= NULL) =>
            LET lg == log[t]
            IN /\ ret[t] = ErrIo(op[t]) =>
                    /\ Len(lg) >= 3
                    /\ lg[1].kind = "cs" /\ lg[1].enable /\ lg[1].res >= 0
                    /\ lg[Len(lg)].kind = "cs" /\ ~lg[Len(lg)].enable
                    /\ lg[Len(lg) - 1].kind = "ioctl" /\ lg[Len(lg) - 1].res < 0
               /\ \A i \in 1..Len(lg) :
                    (lg[i].kind = "cs" /\ lg[i].enable /\ lg[i].res >= 0) =>
                        \E j \in (i + 1)..Len(lg) : lg[j].kind = "cs" /\ ~lg[j].enable

\* a full-duplex transfer failed on its second native call and de-asserted
C5_Witness ==
    \E t \in Threads :
        /\ Returned(t) /\ IsDuplex(op[t]) /\ ret[t] = ErrIo(op[t])
        /\ cs_control_cb /= NULL
        /\ Len(IoCalls(log[t])) = 2
        /\ ~log[t][Len(log[t])].enable

\* C6: the mutex is held exactly by a thread that is inside a function, past
\* its pthread_mutex_lock: whoever returned, on whatever path, does not hold
\* it, and it is free whenever no call is in progress.
C6_LockReleasedOnEveryExit ==
    /\ \A t \in Threads : (Idle(t) \/ pc[t] = "lock") => mutex /= t
    /\ \A t \in Threads : pc[t] \in Holding => mutex = t
    /\ (\A t \in Threads : pc[t] \notin Holding) => mutex = NoThread

\* a transfer returned the chip-select failure code and the mutex is free
C6_Witness ==
    \E t \in Threads :
        /\ Returned(t) /\ ret[t] = ErrCs(op[t])
        /\ cs_control_cb /= NULL
        /\ mutex = NoThread

\* C7: hs_spi_set_max_transfer_len(0) is equivalent to
\* hs_spi_set_max_transfer_len(4096): while the value last passed is 0 or 4096
\* the stored limit is 4096, and every native call of a transfer is cut with
\* the limit 4096 (its length is the smaller of 4096 and the bytes still to
\* go), whichever of the two values was passed.
C7_ZeroMeansDefault ==
    requested_len \in {0, DefaultMaxTransferLen} =>
        /\ max_transfer_len = DefaultMaxTransferLen
        /\ \A t \in Threads :
              op[t] \in TransferOps =>
                  LET io == IoCalls(log[t])
                      L == TotalLen(op[t], arg[t])
                  IN \A i \in 1..Len(io) :
                        /\ io[i].limit = DefaultMaxTransferLen
                        /\ io[i].len = Min(L - io[i].off, DefaultMaxTransferLen)

\* a transfer returned 0 after hs_spi_set_max_transfer_len(0): one native call
\* carried all its bytes
C7_Witness ==
    \E t \in Threads :
        /\ requested_len = 0
        /\ Returned(t) /\ ret[t] = 0
        /\ TotalLen(op[t], arg[t]) >= 2
        /\ Lens(IoCalls(log[t])) = <<TotalLen(op[t], arg[t])>>

\* C8: whenever a transfer is inside its segmentation loop the chunk limit is
\* at least 1, and every native call it issued was cut with a limit of at
\* least 1 and has a positive length.
C8_LimitNeverZeroInLoop ==
    \A t \in Threads :
        /\ pc[t] \in {"loop", "io_fail", "finish"} => max_transfer_len >= 1
        /\ \A i \in 1..Len(log[t]) :
              log[t][i].kind = "ioctl" => log[t][i].limit >= 1 /\ log[t][i].len >= 1

\* a transfer is inside its loop with the default limit, which no
\* hs_spi_set_max_transfer_len call stored, while another thread is about to
\* call hs_spi_set_max_transfer_len(0)
C8_Witness ==
    \E t \in Threads : \E u \in Threads \ {t} :
        /\ pc[t] = "loop" /\ remain_data_len[t] > 0
        /\ max_transfer_len = DefaultMaxTransferLen /\ requested_len = -1
        /\ pc[u] = "lock" /\ op[u] = "hs_spi_set_max_transfer_len" /\ arg[u].val = 0

\* C9: a full-duplex call that returned 0 clocked max(W, R) data bytes; the
\* byte sent at position i is the caller's i-th write byte for i <= W and zero
\* after that; the caller's output buffer holds exactly the first R bytes
\* received, in order.
C9_DuplexPaddingAndCopy ==
    \A t \in Threads :
        (Returned(t) /\ ret[t] = 0 /\ IsDuplex(op[t])) =>
            LET io == IoCalls(log[t])
                W == arg[t].wlen
                R == arg[t].rlen
                sent == WireTx(io)
                received == WireRx(io)
            IN /\ SumLen(io) = Max(W, R)
               /\ Len(sent) = Max(W, R)
               /\ Len(received) = Max(W, R)
               /\ \A i \in 1..Len(sent) :
                     sent[i] = IF i <= W THEN WriteData(W)[i] ELSE 0
               /\ Len(read_data[t]) = R
               /\ \A i \in 1..R : read_data[t][i] = received[i]

\* a full-duplex call that wrote 1 byte and read 3 in two native calls returned 0
C9_Witness ==
    \E t \in Threads :
        /\ Returned(t) /\ ret[t] = 0 /\ IsDuplex(op[t])
        /\ arg[t].wlen = 1 /\ arg[t].rlen = 3
        /\ Len(IoCalls(log[t])) = 2
        /\ WireTx(IoCalls(log[t])) = <<1, 0, 0>>
        /\ read_data[t] = WireRx(IoCalls(log[t]))

\* the first precondition a call violates, in the order of the checks
Cause(o, a) ==
    IF a.hs_null THEN "handle"
    ELSE IF HasWrite(o) /\ a.wnull THEN "write_data"
    ELSE IF HasWrite(o) /\ a.wlen = 0 THEN "write_data_len"
    ELSE IF HasRead(o) /\ a.rnull THEN "read_data"
    ELSE IF HasRead(o) /\ a.rlen = 0 THEN "read_data_len"
    ELSE "none"

\* the transfer calls the callers make: valid ones and every bad combination
CallsOf(o) == ValidArgs(o, 1, 1) \cup InvalidArgs(o)

\* C10: a transfer call with a null handle, a null data pointer or a zero
\* length returns a negative code at once: it never waits for or takes the
\* mutex, invokes no callback, issues no native call and changes nothing of
\* the object; and the returned code tells the cause: no call of the same
\* function that violates another precondition first, or none, returns it.
C10_PreconditionCodes ==
    /\ [](\A t \in Threads :
            (pc[t] = "done" /\ op[t] \in TransferOps) =>
                /\ Cause(op[t], arg[t]) /= "none" => (ret[t] < 0 /\ log[t] = <<>>)
                /\ \A b \in CallsOf(op[t]) :
                      Cause(op[t], b) /= Cause(op[t], arg[t])
                          => CheckArgs(op[t], b) /= ret[t])
    /\ [][\A t \in Threads :
            (Idle(t) /\ ~Idle(t)' /\ op'[t] \in TransferOps)
                => Cause(op'[t], arg'[t]) = "none"]_vars
    /\ [][\A t \in Threads :
            (Idle(t) /\ pc'[t] = "done" /\ op'[t] \in TransferOps
                /\ Cause(op'[t], arg'[t]) /= "none")
                => UNCHANGED <<handle_vars, mutex, heap>>]_vars

\* a full-duplex call with a zero read length returned its own code
C10_Witness ==
    \E t \in Threads :
        /\ pc[t] = "done" /\ IsDuplex(op[t])
        /\ Cause(op[t], arg[t]) = "read_data_len"
        /\ ret[t] < 0 /\ log[t] = <<>> /\ mutex = NoThread

\* the positions of a transfer function after its descriptor check
PastCheckFd == {"alloc_tx", "alloc_rx", "cs_assert", "loop", "io_fail", "finish"}

\* C11: a transfer called with valid arguments while the object has no open
\* descriptor takes the mutex, returns the not-initialized code and releases
\* the mutex in the same step, with no callback invocation and no native
\* call and nothing of the object changed; a transfer gets past the check
\* only with an open descriptor, and the descriptor becomes valid only by
\* an hs_spi_init that returns 0.
C11_NotInitialized ==
    /\ [](\A t \in Threads :
            /\ (Returned(t) /\ ret[t] = ErrNotInit(op[t])) =>
                    (log[t] = <<>> /\ mutex /= t /\ fd < 0)
            /\ (op[t] \in TransferOps /\ pc[t] \in PastCheckFd) =>
                    (fd >= 0 /\ fd \in open_fds)
            /\ (Returned(t) /\ log[t] /= <<>>) => fd >= 0)
    /\ [][\A t \in Threads :
            (pc[t] = "locked" /\ op[t] \in TransferOps /\ fd < 0 /\ pc'[t] /= pc[t]) =>
                /\ pc'[t] = "done" /\ ret'[t] = ErrNotInit(op[t]) /\ log'[t] = <<>>
                /\ mutex = t /\ mutex' = NoThread
                /\ UNCHANGED <<handle_vars, heap>>]_vars
    /\ [][(fd < 0 /\ fd' >= 0) =>
            \E t \in Threads :
                /\ pc[t] = "locked" /\ op[t] = "hs_spi_init"
                /\ pc'[t] = "done" /\ ret'[t] = 0]_vars

\* a full-duplex transfer on an object without a descriptor returned the
\* not-initialized code; a callback is installed and was not invoked
C11_Witness ==
    \E t \in Threads :
        /\ Returned(t) /\ IsDuplex(op[t]) /\ ret[t] = ErrNotInit(op[t])
        /\ fd = InvalidFd /\ cs_control_cb /= NULL
        /\ log[t] = <<>> /\ mutex = NoThread

\* the log holds an assertion (enable = true) the callback answered with a
\* negative value
AssertFailed(lg) ==
    \E i \in 1..Len(lg) : lg[i].kind = "cs" /\ lg[i].enable /\ lg[i].res < 0

\* C12: a transfer whose callback returned a negative value for the assertion
\* returns the chip-select failure code, has issued no native call, holds no
\* scratch buffer and has released the mutex; the failed assertion is the
\* only thing the call did, and no transfer goes on into its loop after it.
C12_AssertFailureAborts ==
    \A t \in Threads :
        /\ (Returned(t) /\ AssertFailed(log[t])) =>
                /\ ret[t] = ErrCs(op[t])
                /\ IoCalls(log[t]) = <<>>
                /\ mutex /= t
                /\ heap = {}
        /\ (Returned(t) /\ ret[t] = ErrCs(op[t])) =>
                /\ Len(log[t]) = 1
                /\ AssertFailed(log[t])
                /\ mutex /= t
        /\ (op[t] \in TransferOps /\ pc[t] \in {"loop", "io_fail", "finish"}) =>
                ~AssertFailed(log[t])

\* hs_spi_read_data_sub returned the chip-select failure code after the
\* callback refused the assertion
C12_Witness ==
    \E t \in Threads :
        /\ Returned(t) /\ op[t] = "hs_spi_read_data_sub" /\ ret[t] = ErrCs(op[t])
        /\ CsEnables(log[t]) = <<TRUE>> /\ log[t][1].res < 0
        /\ IoCalls(log[t]) = <<>> /\ mutex = NoThread
        /\ arg[t].rlen >= 2

\* the bytes one native call carries over all its parts: the address part
\* (spi_transfer[0].len = 1) when there is one, and the data part
BytesOfCall(e) == Len(e.addr) + e.len

\* C13: no native call issued by a transfer function, the first two-part call
\* of a register-addressed function included, carries more than
\* max_transfer_len bytes in total over its parts.
C13_CallWithinChunkLimit ==
    \A t \in Threads :
        op[t] \in TransferOps =>
            \A i \in 1..Len(log[t]) :
                log[t][i].kind = "ioctl" => BytesOfCall(log[t][i]) <= log[t][i].limit

\* thread t is inside hs_spi_init or hs_spi_destroy, at the part that closes
\* and replaces the descriptor
ClosingDescriptor(t) ==
    op[t] \in {"hs_spi_init", "hs_spi_destroy"} /\ pc[t] = "locked"

\* C14 as stated: hs_spi_init and hs_spi_destroy do not take the mutex the
\* transfers take: a thread that closes or replaces the descriptor inside
\* one of them does not hold it.
C14_Original ==
    \A t \in Threads : ClosingDescriptor(t) => mutex /= t

\* C14 as amended: hs_spi_init and hs_spi_destroy close and replace the
\* descriptor holding the mutex the transfers take; even with callers that
\* do not serialize them they wait for a transfer in progress, no step of
\* theirs is taken while another thread is between its chip-select
\* assertion and de-assertion, nothing else changes the descriptor, and the
\* descriptor stays open throughout every bracket.
C14_InitDestroyUnderLock ==
    /\ [](\A t \in Threads :
            /\ ClosingDescriptor(t) => mutex = t
            /\ InBracket(t) => (fd >= 0 /\ fd \in open_fds))
    /\ [][\A t \in Threads :
            (ClosingDescriptor(t) /\ pc'[t] /= pc[t]) =>
                /\ mutex = t
                /\ \A u \in Threads \ {t} : ~InBracket(u)]_vars
    /\ [][(fd' /= fd \/ open_fds' /= open_fds) =>
            \E t \in Threads : ClosingDescriptor(t) /\ pc'[t] /= pc[t]]_vars

\* hs_spi_init was called on an initialized object while a transfer of another
\* thread is inside its bracket after a native call: it waits for the mutex
C14_Witness ==
    \E t \in Threads : \E u \in Threads \ {t} :
        /\ pc[t] = "loop" /\ Len(IoCalls(log[t])) >= 1 /\ remain_data_len[t] > 0
        /\ pc[u] = "lock" /\ op[u] = "hs_spi_init"
        /\ mutex = t /\ fd \in open_fds

\* the index, counted from 1, of the segment a native call carries: segments
\* before it are full ones of limit bytes
SegmentIndex(e) == (e.off \div e.limit) + 1

\* C15: a native call that returns a negative result is the last native call
\* of its transfer: the failed segment is not tried again and no later
\* segment is attempted; the transfer returns the I/O failure code of its
\* function, and the number of native calls it issued is the index of the
\* failing segment.
C15_NoCallAfterFailure ==
    \A t \in Threads :
        op[t] \in TransferOps =>
            LET io == IoCalls(log[t])
                failed == \E i \in 1..Len(io) : io[i].res < 0
            IN /\ \A i \in 1..Len(io) : io[i].res < 0 => i = Len(io)
               /\ pc[t] \in {"loop", "finish"} => ~failed
               /\ (Returned(t) /\ failed) => ret[t] = ErrIo(op[t])
               /\ (Returned(t) /\ ret[t] = ErrIo(op[t])) =>
                     /\ failed
                     /\ Len(io) = SegmentIndex(io[Len(io)])
                     /\ remain_data_len[t] =
                            TotalLen(op[t], arg[t]) - io[Len(io)].off

\* hs_spi_write_data_sub of 10 bytes with a chunk limit of 4 failed on its
\* third segment after three native calls
C15_Witness ==
    \E t \in Threads :
        /\ Returned(t) /\ op[t] = "hs_spi_write_data_sub" /\ ret[t] = ErrIo(op[t])
        /\ arg[t].wlen = 10 /\ max_transfer_len = 4
        /\ Len(IoCalls(log[t])) = 3
        /\ IoCalls(log[t])[3].off = 8 /\ IoCalls(log[t])[3].res < 0

\* a step in which thread t leaves the locked part of hs_spi_init
InitReturns(t) == op[t] = "hs_spi_init" /\ pc[t] = "locked" /\ pc'[t] = "done"

\* C16: after any sequence of hs_spi_init calls the descriptor of the object
\* is invalid and nothing it opened is open, or it is the one open endpoint;
\* an hs_spi_init that returns 0 leaves exactly the endpoint it opened, and
\* one that fails (at open or at a configuration step) leaves the object
\* with an invalid descriptor and no endpoint open.
C16_OneEndpointOrNone ==
    /\ [](\/ fd = InvalidFd /\ open_fds = {}
          \/ fd >= 0 /\ open_fds = {fd})
    /\ [][\A t \in Threads :
            InitReturns(t) =>
                IF ret'[t] = 0
                THEN fd' >= 0 /\ open_fds' = {fd'}
                ELSE ret'[t] \in -9 .. -3 /\ fd' = InvalidFd /\ open_fds' = {}]_vars

\* hs_spi_init failed at a configuration step on an object that an earlier
\* hs_spi_init had initialized (the default limit is stored and no
\* hs_spi_set_max_transfer_len call was made): nothing is left open
C16_Witness ==
    \E t \in Threads :
        /\ pc[t] = "done" /\ op[t] = "hs_spi_init" /\ ret[t] = -5
        /\ max_transfer_len = DefaultMaxTransferLen /\ requested_len = -1
        /\ fd = InvalidFd /\ open_fds = {}

\* C17: hs_spi_init changes the chunk limit only when it returns 0 and the
\* stored limit is 0, and then to 4096; a limit stored by
\* hs_spi_set_max_transfer_len, before the first hs_spi_init or between two,
\* stays as it is; the chip-select callback is the same before and after
\* hs_spi_init, whether it returns 0 or fails.
C17_InitKeepsLimitAndCallback ==
    /\ [][\A t \in Threads :
            InitReturns(t) =>
                /\ cs_control_cb' = cs_control_cb
                /\ max_transfer_len' =
                      IF ret'[t] = 0 /\ max_transfer_len = 0
                      THEN DefaultMaxTransferLen
                      ELSE max_transfer_len]_vars
    /\ [](requested_len \notin {-1, 0} => max_transfer_len = requested_len)
    /\ [](requested_len = -1 => max_transfer_len \in {0, DefaultMaxTransferLen})

\* hs_spi_init returned 0 on an object with a limit of 3 set before and a
\* callback installed: both are as they were
C17_Witness ==
    \E t \in Threads :
        /\ pc[t] = "done" /\ op[t] = "hs_spi_init" /\ ret[t] = 0
        /\ max_transfer_len = 3 /\ requested_len = 3
        /\ cs_control_cb /= NULL /\ fd >= 0

\* the last entry of the log is a de-assertion (enable = false) the callback
\* answered with a negative value
DeassertFailed(lg) ==
    /\ lg /= <<>>
    /\ lg[Len(lg)].kind = "cs" /\ ~lg[Len(lg)].enable /\ lg[Len(lg)].res < 0

\* C18: what the callback returns for the de-assertion is not reported: a
\* transfer that issued native calls returns 0 when all of them succeeded,
\* with all its bytes transferred, and the I/O failure code when one failed,
\* also when the callback answered the de-assertion with a negative value.
C18_DeassertResultIgnored ==
    \A t \in Threads :
        (Returned(t) /\ IoCalls(log[t]) /= <<>>) =>
            LET io == IoCalls(log[t])
                failed == \E i \in 1..Len(io) : io[i].res < 0
            IN /\ ret[t] = IF failed THEN ErrIo(op[t]) ELSE 0
               /\ ~failed => SumLen(io) = TotalLen(op[t], arg[t])
               /\ DeassertFailed(log[t]) => ret[t] \in {0, ErrIo(op[t])}

\* a full-duplex transfer returned 0 after two native calls although the
\* callback answered its de-assertion with a negative value
C18_Witness ==
    \E t \in Threads :
        /\ Returned(t) /\ op[t] = "hs_spi_write_read_data_sub" /\ ret[t] = 0
        /\ DeassertFailed(log[t])
        /\ Len(IoCalls(log[t])) = 2
        /\ CsEnables(log[t]) = <<TRUE, FALSE>>

\* the scratch buffers thread t has allocated and not freed
ScratchOf(t) == {b \in heap : b[1] = t}

\* C19: in the two full-duplex functions a failed allocation of tx_buf or of
\* rx_buf ends the call with the allocation failure code of that buffer: no
\* callback was invoked (chip-select was not asserted), no native call was
\* issued, no scratch buffer is left allocated and the mutex is released.
C19_AllocationFailureAborts ==
    /\ [](\A t \in Threads :
            /\ (Returned(t) /\ IsDuplex(op[t])
                    /\ ret[t] \in {ErrTxAlloc(op[t]), ErrRxAlloc(op[t])}) =>
                    (log[t] = <<>> /\ ScratchOf(t) = {} /\ mutex /= t)
            /\ Idle(t) => ScratchOf(t) = {}
            /\ pc[t] = "alloc_rx" => ScratchOf(t) = {<<t, "tx">>})
    /\ [][\A t \in Threads :
            (pc[t] \in {"alloc_tx", "alloc_rx"} /\ pc'[t] = "done") =>
                /\ ret'[t] = IF pc[t] = "alloc_tx" THEN ErrTxAlloc(op[t])
                                                   ELSE ErrRxAlloc(op[t])
                /\ log'[t] = <<>>
                /\ heap' = heap \ {<<t, "tx">>}
                /\ mutex = t /\ mutex' = NoThread
                /\ UNCHANGED handle_vars]_vars

\* hs_spi_write_read_data_sub returned the rx_buf allocation failure code:
\* tx_buf was freed, the installed callback was not invoked
C19_Witness ==
    \E t \in Threads :
        /\ Returned(t) /\ op[t] = "hs_spi_write_read_data_sub"
        /\ ret[t] = ErrRxAlloc(op[t])
        /\ cs_control_cb /= NULL /\ log[t] = <<>>
        /\ heap = {} /\ mutex = NoThread

\* C20: the check of remain_data_len after the loop never fires: no transfer
\* returns the "remaining length is not zero" code (-7, or -11 in the
\* full-duplex functions); the loop is left with exactly zero bytes
\* remaining, or through the return of a failed native call with bytes
\* still to go, and remain_data_len never drops below zero.
C20_RemainCheckNeverFires ==
    \A t \in Threads :
        /\ Returned(t) => ret[t] /= ErrRemain(op[t])
        /\ (op[t] \in TransferOps /\ pc[t] = "finish") => remain_data_len[t] = 0
        /\ (op[t] \in TransferOps /\ pc[t] \in {"loop", "io_fail"}) =>
                (remain_data_len[t] >= 0
                    /\ remain_data_len[t] <= TotalLen(op[t], arg[t]))
        /\ pc[t] = "io_fail" => remain_data_len[t] > 0
        /\ (Returned(t) /\ ret[t] = 0) => remain_data_len[t] = 0
        /\ (Returned(t) /\ ret[t] = ErrIo(op[t])) => remain_data_len[t] > 0

\* hs_spi_read_data of 7 bytes with a chunk limit of 3 stands at the check
\* after its loop: three native calls, the last one shorter, nothing remains
C20_Witness ==
    \E t \in Threads :
        /\ pc[t] = "finish" /\ op[t] = "hs_spi_read_data"
        /\ arg[t].rlen = 7 /\ max_transfer_len = 3
        /\ Lens(IoCalls(log[t])) = <<3, 3, 1>>
        /\ remain_data_len[t] = 0

\* C21: a full-duplex call that returns an error leaves the caller's output
\* buffer as it was passed, also when native calls of the same call
\* succeeded before; the buffer is untouched as long as the call is in
\* progress, and only the call that returns 0 stores into it (the first
\* read_data_len bytes received).
C21_DuplexOutputOnlyOnSuccess ==
    \A t \in Threads :
        (op[t] \in TransferOps /\ IsDuplex(op[t]) /\ CheckArgs(op[t], arg[t]) = 0) =>
            /\ ~Idle(t) => read_data[t] = Fresh(arg[t].rlen)
            /\ (pc[t] = "done" /\ ret[t] /= 0) => read_data[t] = Fresh(arg[t].rlen)
            /\ (pc[t] = "done" /\ ret[t] = 0) =>
                    /\ read_data[t] /= Fresh(arg[t].rlen)
                    /\ read_data[t] = Slice(WireRx(IoCalls(log[t])), 0, arg[t].rlen)

\* hs_spi_write_read_data_sub of 3 bytes each way failed on its third native
\* call after two that succeeded: the output buffer is as it was passed
C21_Witness ==
    \E t \in Threads :
        /\ Returned(t) /\ op[t] = "hs_spi_write_read_data_sub"
        /\ ret[t] = ErrIo(op[t])
        /\ arg[t].rlen = 3
        /\ Len(IoCalls(log[t])) = 3
        /\ IoCalls(log[t])[1].res >= 0 /\ Len(IoCalls(log[t])[1].rx) >= 1
        /\ read_data[t] = Fresh(3)

\* thread t is inside a transfer function, between its pthread_mutex_lock
\* and its pthread_mutex_unlock
TransferInProgress(t) == op[t] \in TransferOps /\ pc[t] \in Holding

\* C22: hs_spi_set_cs_control_cb and hs_spi_set_max_transfer_len called by
\* other threads while a transfer is in progress take effect only after it
\* released the mutex: the limit and the callback do not change while a
\* transfer is in progress, every native call of a transfer was cut with
\* the limit that is stored now, and every callback invocation of a
\* transfer went to the callback that is installed now (none was made when
\* none is installed).
C22_SettersWaitForTransfer ==
    /\ [](\A t \in Threads :
            TransferInProgress(t) =>
                \A i \in 1..Len(log[t]) :
                    IF log[t][i].kind = "ioctl"
                    THEN log[t][i].limit = max_transfer_len
                    ELSE cs_control_cb /= NULL /\ log[t][i].cb = cs_control_cb)
    /\ [][(\E t \in Threads : TransferInProgress(t)) =>
            UNCHANGED <<max_transfer_len, cs_control_cb>>]_vars
    /\ [][\A t \in Threads :
            (TransferInProgress(t) /\ Len(log'[t]) = Len(log[t]) + 1) =>
                LET e == log'[t][Len(log'[t])]
                IN IF e.kind = "ioctl"
                   THEN e.limit = max_transfer_len
                   ELSE e.cb = cs_control_cb /\ cs_control_cb /= NULL]_vars

\* a transfer cut its first segment with the limit 1 and has more to send,
\* with its assertion made to the installed callback, while another thread
\* called hs_spi_set_max_transfer_len(0) and waits for the mutex
C22_Witness ==
    \E t \in Threads : \E u \in Threads \ {t} :
        /\ pc[t] = "loop" /\ remain_data_len[t] > 0
        /\ Len(IoCalls(log[t])) = 1 /\ IoCalls(log[t])[1].limit = 1
        /\ CsEnables(log[t]) = <<TRUE>>
        /\ pc[u] = "lock" /\ op[u] = "hs_spi_set_max_transfer_len" /\ arg[u].val = 0

\* ceil(L / C) for a positive chunk limit C
CeilDiv(L, C) == (L + C - 1) \div C

\* C23: when every native call and callback invocation returns and the mutex
\* is granted fairly, every transfer call eventually returns, also while
\* other threads call functions on the same object; a transfer of L bytes
\* with chunk limit C has issued at most ceil(L / C) native calls at any
\* moment, and exactly ceil(L / C) when it leaves the loop with all of them
\* successful, in the register-addressed functions as in the plain ones.
C23_TransfersReturn ==
    /\ \A t \in Threads : (op[t] \in TransferOps /\ ~Idle(t)) ~> Idle(t)
    /\ [](\A t \in Threads :
            (op[t] \in TransferOps /\ pc[t] \in {"loop", "io_fail", "finish"}) =>
                LET n == Len(IoCalls(log[t]))
                    bound == CeilDiv(TotalLen(op[t], arg[t]), max_transfer_len)
                IN /\ n <= bound
                   /\ pc[t] = "finish" => n = bound
                   /\ pc[t] = "io_fail" => n >= 1)

\* a register-addressed transfer of 2 bytes with chunk limit 1 left its loop
\* after 2 native calls while another thread, which called a transfer
\* function too, waits for the mutex
C23_Witness ==
    \E t \in Threads : \E u \in Threads \ {t} :
        /\ pc[t] = "finish" /\ IsSub(op[t])
        /\ TotalLen(op[t], arg[t]) = 2 /\ max_transfer_len = 1
        /\ Len(IoCalls(log[t])) = 2
        /\ pc[u] = "lock" /\ op[u] \in TransferOps

=============================================================================
